---- MODULE Spec2Model ----
(***************************************************************************)
(* Model of the Effect-based request pipeline of codesandbox-worker:       *)
(* businessLogic (tracing-example.ts, embedded in README.md), the          *)
(* /test/:userId? handlers of index.ts and the pipelines of the notes.     *)
(* A run is interpreted step by step: every withSpan entry and exit,       *)
(* every sleep (a suspension point), every handler and every pipe stage is *)
(* one action.                                                             *)
(***************************************************************************)
EXTENDS Integers, Sequences, FiniteSets, TLC

\* ------------------------------------------------------------------ bounds
\* number of recurrences after which an (unbounded) schedule is cut off
MaxRecurs == 2

\* ------------------------------------------------------------- text values
\* JavaScript strings are sequences of characters, so that trim() is computed.
Id123 == <<"1", "2", "3">>
Id404 == <<"4", "0", "4">>
IdError == <<"e", "r", "r", "o", "r">>
IdProcessError == <<"p", "r", "o", "c", "e", "s", "s", "-", "e", "r", "r", "o", "r">>
IdEmpty == <<>>
IdBlank == <<" ">>
IdBlanks == <<" ", "\t">>
IdPadded == <<" ", "7">>

UserIds ==
    {Id123, Id404, IdError, IdProcessError, IdEmpty, IdBlank, IdBlanks, IdPadded}

\* c.req.param("userId"): the path segment, or undefined when it is absent
Params == [defined : {TRUE}, text : UserIds] \cup {[defined |-> FALSE, text |-> <<>>]}

IsWhitespace(ch) == ch \in {" ", "\t", "\n"}

RECURSIVE TrimStart(_)
TrimStart(s) ==
    IF s = <<>> THEN <<>>
    ELSE IF IsWhitespace(Head(s)) THEN TrimStart(Tail(s)) ELSE s

RECURSIVE TrimEnd(_)
TrimEnd(s) ==
    IF s = <<>> THEN <<>>
    ELSE IF IsWhitespace(s[Len(s)]) THEN TrimEnd(SubSeq(s, 1, Len(s) - 1)) ELSE s

\* String.prototype.trim
Trim(s) == TrimEnd(TrimStart(s))

\* c.req.param("userId") || "123": undefined and "" are falsy
ParamOrDefault(p) == IF ~p.defined \/ p.text = <<>> THEN Id123 ELSE p.text

\* mutant: the input is not trimmed before it is compared with ""
IsInvalidUserIdNoTrim(userId) == userId = <<>>

\* !userId || userId.trim() === ""
IsInvalidUserId(userId) == userId = <<>> \/ Trim(userId) = <<>>

\* ----------------------------------------------------------------- errors
UserNotFound(userId) ==
    [_tag |-> "UserNotFound", userId |-> userId,
     message |-> <<"User with ID ">> \o userId \o <<" not found">>]

ValidationError(field, message) ==
    [_tag |-> "ValidationError", field |-> field, message |-> message]

DatabaseError(operation, details) ==
    [_tag |-> "DatabaseError", operation |-> operation, details |-> details]

\* --------------------------------------------------------------- outcomes
Success(v) == [tag |-> "Success", value |-> v]
Failure(e) == [tag |-> "Failure", value |-> e]
Defect(c) == [tag |-> "Defect", value |-> c]
Interrupted == [tag |-> "Interrupted", value |-> [_tag |-> "Interrupt"]]
Unit == [_tag |-> "Unit"]
Pending == [tag |-> "Pending", value |-> Unit]

IsSuccess(o) == o.tag = "Success"
IsFailure(o) == o.tag = "Failure"
IsDefect(o) == o.tag = "Defect"
IsFailureOf(o, kinds) == o.tag = "Failure" /\ o.value._tag \in kinds


\* -------------------------------------------------------------- responses
\* c.json(body, status); the status defaults to 200
Json(body, status) == [status |-> status, body |-> body]

NoResponse == [status |-> 0, body |-> Unit]

\* Effect.map((data) => c.json({ success: true, data }))
WrapSuccess(data) == Json([success |-> TRUE, data |-> data], 200)

\* ValidationError: (error) => Effect.succeed(c.json({...}, 400))
ValidationResponse(error) ==
    Success(Json([success |-> FALSE,
                  error |-> [type |-> "ValidationError", field |-> error.field,
                             message |-> error.message]], 400))

\* UserNotFound: (error) => Effect.succeed(c.json({...}, 404))
NotFoundResponse(error) ==
    Success(Json([success |-> FALSE,
                  error |-> [type |-> error._tag, message |-> error.message]], 404))

\* ------------------------------------------------------------ combinators
\* mutant: f is also applied to the payload of a Failure
MapAppliesToFailure(o) == o.tag \in {"Success", "Failure"}

\* Effect.map: the exits whose payload is handed to f
MapApplies(o) == IsSuccess(o)

\* Effect.map: only a Success payload is transformed; mapped is f(o.value)
MapOutcome(o, mapped) == IF MapApplies(o) THEN Success(mapped) ELSE o

\* Effect.catchTag / Effect.catchTags: dispatch on the _tag of a Failure;
\* recovered is the exit of the handler of that tag run on o.value
CatchTags(o, kinds, recovered) == IF IsFailureOf(o, kinds) THEN recovered ELSE o

\* the handler that ran, if any
CaughtTag(o, kinds) == IF IsFailureOf(o, kinds) THEN o.value._tag ELSE "none"

\* mutant: a Defect is captured as a Left too
EitherAbsorbsDefect(o) ==
    IF IsSuccess(o) THEN Success([_tag |-> "Right", right |-> o.value])
    ELSE IF o.tag \in {"Failure", "Defect"} THEN Success([_tag |-> "Left", left |-> o.value])
    ELSE o

\* Effect.either: Success -> Right, Failure -> Left, anything else is not absorbed
Either(o) ==
    IF IsSuccess(o) THEN Success([_tag |-> "Right", right |-> o.value])
    ELSE IF IsFailure(o) THEN Success([_tag |-> "Left", left |-> o.value])
    ELSE o

\* Effect.exit: the exit becomes the value, with its cause (Fail or Die); an
\* interruption of the run itself is not turned into a value
Exit(o) ==
    IF IsSuccess(o) THEN Success([_tag |-> "Success", value |-> o.value])
    ELSE IF IsFailure(o)
    THEN Success([_tag |-> "Failure", cause |-> [_tag |-> "Fail", error |-> o.value]])
    ELSE IF IsDefect(o)
    THEN Success([_tag |-> "Failure", cause |-> [_tag |-> "Die", defect |-> o.value]])
    ELSE o

\* fetchUserData: Effect.catchTag("DatabaseError", ...) re-fails with the error
FetchKinds == {"DatabaseError"}
FetchHandler(error) == Failure(error)

\* businessLogic: Effect.catchTags({ValidationError, UserNotFound, DatabaseError})
BusinessKinds == {"ValidationError", "UserNotFound", "DatabaseError"}

\* mutant: the DatabaseError handler fails again instead of dying
BusinessHandlerRefail(error) == Failure(error)

BusinessHandler(error) ==
    IF error._tag = "DatabaseError" THEN Defect(error) ELSE Failure(error)

\* mutant: the UserNotFound entry is missing from the handler map
RouteKindsNoNotFound == {"ValidationError"}

\* index.ts: Effect.catchTags({ValidationError, UserNotFound}); the
\* DatabaseError entry is commented out
RouteKinds == {"ValidationError", "UserNotFound"}
RouteHandler(error) ==
    IF error._tag = "ValidationError" THEN ValidationResponse(error)
    ELSE NotFoundResponse(error)

\* the order note: catchTags({UserNotFound}) placed before map
NoteKinds == {"UserNotFound"}
NoteHandler(error) == NotFoundResponse(error)

\* ------------------------------------------------------------------ spans
NoSpan == 0

\* mutant: a Defect does not mark the span
SpanStatusFailureOnly(exit) == IF exit.tag = "Failure" THEN "error" ELSE "ok"

\* a span's closing status, from the exit of the wrapped effect
SpanStatus(exit) == IF exit.tag \in {"Failure", "Defect"} THEN "error" ELSE "ok"

Str(s) == <<s>>

\* a property read: undefined when the object has no such property
Undefined == <<"undefined">>
Get(obj, key) == IF key \in DOMAIN obj THEN obj[key] ELSE Undefined

\* attribute maps are sets of <<key, value>> pairs; a later value replaces an
\* earlier one of the same key
MergeAttrs(attrs, new) ==
    {p \in attrs : \A q \in new : q[1] # p[1]} \cup new


\* ------------------------------------------------------------------ state
\* r1 is the request under study; r2 is a second request, served concurrently
\* with it when it is not idle
Runs == {"r1", "r2"}

\* the pipelines a run is started with
\*   catchTags     index.ts: provide, map, catchTags
\*   either        index.ts (earlier) and the test of the notes: provide, either
\*   catchThenMap  the order note: catchTags, map
\*   repeat        backgroundTask: repeat(spaced), withSpan, provide
\*   retry         retry(exponential)
\*   tryCatch      index.ts (first versions): provide, inside try / catch
\*   tryCatchSimple  the same handler over the first businessLogic, which
\*                 has no failure
\*   exit          the order note: provide, exit
\*   fetchOnly     fetchUserData evaluated on its own, outside businessLogic
\*                 and so outside every span
Pipelines ==
    {"catchTags", "either", "catchThenMap", "repeat", "retry", "tryCatch",
     "tryCatchSimple", "exit", "fetchOnly"}

\* the capabilities the TracingLive layer acquires, in order
LayerCapabilities == <<"Resource", "TracerProvider", "Tracer">>

Provided(pl) ==
    pl \in {"catchTags", "either", "repeat", "tryCatch", "tryCatchSimple", "exit"}

VARIABLES
    req,        \* per run: [pipeline, call, param]
    userId,     \* per run: the argument of businessLogic
    pc,         \* per run: position of the interpreter
    out,        \* per run: the exit in flight
    cur,        \* per run: the current-span pointer (index into spans, or NoSpan)
    spans,      \* the spans created so far, of all runs
    log,        \* per run: the messages logged
    acquired,   \* per run: capabilities acquired and not yet released
    released,   \* per run: capabilities released, in order of release
    events,     \* per run: history of combinator and capability invocations
    attempts,   \* per run: exits of the invocations of a scheduled body
    now,        \* the clock, in milliseconds
    response    \* per run: what the trigger answered

vars == <<req, userId, pc, out, cur, spans, log, acquired, released, events,
          attempts, now, response>>

Requests ==
    [pipeline : {"catchTags", "either", "catchThenMap", "tryCatch", "tryCatchSimple"},
     call : {"http"}, param : Params]
    \cup [pipeline : {"either", "exit", "fetchOnly"}, call : {"direct"},
          param : [defined : {TRUE}, text : UserIds]]
    \cup [pipeline : {"repeat", "retry"}, call : {"main"},
          param : {[defined |-> FALSE, text |-> <<>>]}]

\* no second request
IdleRequest ==
    [pipeline |-> "none", call |-> "none", param |-> [defined |-> FALSE, text |-> <<>>]]

\* the requests of two concurrent runs: the first is any of the pipelines, the
\* second a run of businessLogic
FirstRequests ==
    {q \in Requests :
        \/ q.call = "main" /\ q.pipeline = "retry"
        \/ q.call = "direct" /\ q.pipeline = "either"
              /\ q.param.text \in {Id123, IdError}
        \/ q.call = "direct" /\ q.pipeline = "exit" /\ q.param.text = IdEmpty
        \/ q.call = "http" /\ q.pipeline \in {"catchThenMap", "tryCatchSimple"}
              /\ q.param.defined /\ q.param.text = IdBlank}
SecondRequests ==
    [pipeline : {"either"}, call : {"direct"},
     param : [defined : {TRUE}, text : {Id123, IdError}]]

InitFrom(first, second) ==
    /\ req \in {f \in [Runs -> first \cup second] :
                    f["r1"] \in first /\ f["r2"] \in second}
    /\ userId = [r \in Runs |-> <<>>]
    /\ pc = [r \in Runs |-> IF req[r] = IdleRequest THEN "idle" ELSE "start"]
    /\ out = [r \in Runs |-> Pending]
    /\ cur = [r \in Runs |-> NoSpan]
    /\ spans = <<>>
    /\ log = [r \in Runs |-> <<>>]
    /\ acquired = [r \in Runs |-> <<>>]
    /\ released = [r \in Runs |-> <<>>]
    /\ events = [r \in Runs |-> <<>>]
    /\ attempts = [r \in Runs |-> <<>>]
    /\ now = 0
    /\ response = [r \in Runs |-> NoResponse]

\* one request is served
Init == InitFrom(Requests, {IdleRequest})

\* two requests are served concurrently (of two pairs that mirror each other,
\* one is kept)
InitPair ==
    /\ InitFrom(FirstRequests, SecondRequests)
    /\ (req["r1"].pipeline = "either" /\ req["r1"].param.text = IdError) =>
          req["r2"] = req["r1"]

Logged(r, level, msg) == [log EXCEPT ![r] = Append(@, [level |-> level, msg |-> msg])]

Recorded(r, op, site, in, o, handler) ==
    [events EXCEPT ![r] =
        Append(@, [op |-> op, site |-> site, in |-> in, out |-> o, handler |-> handler])]

\* where the interpreter goes first, once the layer (if any) is built
Entry(pl) ==
    IF pl = "repeat" THEN "bg_enter"
    ELSE IF pl = "retry" THEN "sched_body"
    ELSE IF pl = "tryCatchSimple" THEN "sbl_enter"
    ELSE IF pl = "fetchOnly" THEN "fetch_enter"
    ELSE "bl_enter"

\* app.get("/test/:userId?"): userId = c.req.param("userId") || "123";
\* a direct call passes its argument as it is
Request(r) ==
    /\ pc[r] = "start"
    /\ userId' = [userId EXCEPT ![r] =
                     IF req[r].call = "http" THEN ParamOrDefault(req[r].param)
                     ELSE req[r].param.text]
    /\ pc' = [pc EXCEPT ![r] =
                 IF Provided(req[r].pipeline) THEN "acquire" ELSE Entry(req[r].pipeline)]
    /\ UNCHANGED <<req, out, cur, spans, log, acquired, released, events, attempts,
                   now, response>>

\* Effect.provide(TracingLive): the layer is built, one capability after another
Provide(r) ==
    /\ pc[r] = "acquire"
    /\ Len(acquired[r]) < Len(LayerCapabilities)
    /\ acquired' = [acquired EXCEPT ![r] = Append(@, LayerCapabilities[Len(@) + 1])]
    /\ events' = Recorded(r, "acquire", LayerCapabilities[Len(acquired[r]) + 1],
                           Pending, Pending, "none")
    /\ pc' = [pc EXCEPT ![r] =
                 IF Len(acquired[r]) + 1 = Len(LayerCapabilities)
                 THEN Entry(req[r].pipeline) ELSE "acquire"]
    /\ UNCHANGED <<req, userId, out, cur, spans, log, released, attempts, now,
                   response>>


\* ------------------------------------------------------------- durations
DbDelay == 50
ProcessDelay == 50
SimpleFetchDelay == 100
SpacedDelay == 300000
RetryBase == 100

\* -------------------------------------------------------------- withSpan
\* the positions prefixed with s are those of the first businessLogic, which
\* validates nothing and has no repository
EnterPcs ==
    {"bl_enter", "fetch_enter", "db_enter", "proc_enter", "bg_enter",
     "sbl_enter", "sfetch_enter", "sproc_enter"}
ExitPcs ==
    {"bl_exit", "fetch_exit", "db_exit", "proc_exit", "bg_exit",
     "sbl_exit", "sfetch_exit", "sproc_exit"}

SpanName(p) ==
    CASE p \in {"bl_enter", "bl_exit", "sbl_enter", "sbl_exit"} -> "business.main"
      [] p \in {"fetch_enter", "fetch_exit", "sfetch_enter", "sfetch_exit"} -> "user.fetch"
      [] p \in {"db_enter", "db_exit"} -> "db.query"
      [] p \in {"proc_enter", "proc_exit", "sproc_enter", "sproc_exit"} -> "user.process"
      [] p \in {"bg_enter", "bg_exit"} -> "background.task"

\* the attributes option of each withSpan
SpanAttributes(r, p) ==
    CASE p \in {"fetch_enter", "sfetch_enter"} -> {<<"userId", userId[r]>>}
      [] p = "db_enter" -> {<<"db.operation", Str("SELECT")>>, <<"db.table", Str("users")>>,
                            <<"userId", userId[r]>>}
      [] p \in {"proc_enter", "sproc_enter"} ->
            {<<"userId", Get(out[r].value, "id")>>,
             <<"userName", Get(out[r].value, "name")>>}
      [] OTHER -> {}

EnterNext(p) ==
    CASE p = "bl_enter" -> "bl_start"
      [] p = "fetch_enter" -> "fetch_validate"
      [] p = "db_enter" -> "db_query"
      [] p = "proc_enter" -> "proc_start"
      [] p = "bg_enter" -> "sched_body"
      [] p = "sbl_enter" -> "sbl_start"
      [] p = "sfetch_enter" -> "sfetch_start"
      [] p = "sproc_enter" -> "sproc_start"

\* mutant: the catchTag of fetchUserData is around processUserData too
ExitNextProcessCaught(p, o) ==
    CASE p = "db_exit" -> IF IsSuccess(o) THEN "fetch_match" ELSE "fetch_exit"
      [] p = "fetch_exit" -> "fetch_catch"
      [] p = "proc_exit" -> IF IsSuccess(o) THEN "bl_finish" ELSE "fetch_catch"
      [] p = "bl_exit" -> "bl_catch"
      [] p = "bg_exit" -> "release"
      [] p = "sfetch_exit" -> IF IsSuccess(o) THEN "sproc_enter" ELSE "sbl_exit"
      [] p = "sproc_exit" -> IF IsSuccess(o) THEN "sbl_finish" ELSE "sbl_exit"
      [] p = "sbl_exit" -> "release"

\* where the interpreter continues once the wrapped effect has exited with o:
\* a generator is resumed only with a Success
ExitNext(p, o) ==
    CASE p = "db_exit" -> IF IsSuccess(o) THEN "fetch_match" ELSE "fetch_exit"
      [] p = "fetch_exit" -> "fetch_catch"
      [] p = "proc_exit" -> IF IsSuccess(o) THEN "bl_finish" ELSE "bl_exit"
      [] p = "bl_exit" -> "bl_catch"
      [] p = "bg_exit" -> "release"
      [] p = "sfetch_exit" -> IF IsSuccess(o) THEN "sproc_enter" ELSE "sbl_exit"
      [] p = "sproc_exit" -> IF IsSuccess(o) THEN "sbl_finish" ELSE "sbl_exit"
      [] p = "sbl_exit" -> "release"

\* mutant: the parent is the span created last, whichever run created it
NewSpanUnderLast(r, p) ==
    [run |-> r, name |-> SpanName(p), parent |-> Len(spans),
     attributes |-> SpanAttributes(r, p), status |-> "unset", exit |-> "none",
     ends |-> 0]

\* mutant: every span is a root
NewSpanRoot(r, p) ==
    [run |-> r, name |-> SpanName(p), parent |-> NoSpan,
     attributes |-> SpanAttributes(r, p), status |-> "unset", exit |-> "none",
     ends |-> 0]

NewSpan(r, p) ==
    [run |-> r, name |-> SpanName(p), parent |-> cur[r],
     attributes |-> SpanAttributes(r, p), status |-> "unset", exit |-> "none",
     ends |-> 0]

\* the span a closing wrapper ends: the one that is current
ClosedSpan(r) == cur[r]

\* mutant: the pointer is reset instead of walking back one level
RestoredSpanRoot(r) == NoSpan

\* mutant: the pointer stays on the span that has just been closed
RestoredSpanStays(r) == cur[r]

\* the pointer after a wrapper has exited: one level up
RestoredSpan(r) == spans[cur[r]].parent

\* Effect.withSpan(name, {attributes}): open a child of the current span and
\* make it current
WithSpanEnter(r) ==
    /\ pc[r] \in EnterPcs
    /\ spans' = Append(spans, NewSpan(r, pc[r]))
    /\ cur' = [cur EXCEPT ![r] = Len(spans) + 1]
    /\ pc' = [pc EXCEPT ![r] = EnterNext(pc[r])]
    /\ UNCHANGED <<req, userId, out, log, acquired, released, events, attempts,
                   now, response>>

\* Effect.withSpan on exit of the wrapped effect: end the span with the exit and
\* restore the pointer
WithSpanExit(r) ==
    /\ pc[r] \in ExitPcs
    /\ cur[r] # NoSpan
    /\ spans' = [spans EXCEPT ![ClosedSpan(r)] =
                    [@ EXCEPT !.status = SpanStatus(out[r]), !.exit = out[r].tag,
                               !.ends = @ + 1]]
    /\ cur' = [cur EXCEPT ![r] = RestoredSpan(r)]
    /\ pc' = [pc EXCEPT ![r] = ExitNext(pc[r], out[r])]
    /\ UNCHANGED <<req, userId, out, log, acquired, released, events, attempts,
                   now, response>>

\* mutant: one current span for the whole process, the open span opened last
AnnotatedLatest(r, attrs) ==
    LET open == {i \in DOMAIN spans : spans[i].ends = 0}
    IN  IF open = {} THEN spans
        ELSE LET last == CHOOSE i \in open : \A j \in open : j <= i
             IN  [spans EXCEPT ![last].attributes = MergeAttrs(@, attrs)]

\* mutant: the attributes go to the span the run opened last
AnnotatedOpenedLast(r, attrs) ==
    LET own == {i \in DOMAIN spans : spans[i].run = r}
    IN  IF own = {} THEN spans
        ELSE LET last == CHOOSE i \in own : \A j \in own : j <= i
             IN  [spans EXCEPT ![last].attributes = MergeAttrs(@, attrs)]

\* Effect.annotateCurrentSpan(attributes): merged into the current span, if any
Annotated(r, attrs) ==
    IF cur[r] = NoSpan THEN spans
    ELSE [spans EXCEPT ![cur[r]].attributes = MergeAttrs(@, attrs)]

\* mutant: the lookup of the current span fails the annotation when there is none
AnnotateExitNoSpanDies(r) ==
    IF cur[r] = NoSpan THEN Defect([_tag |-> "NoSuchElementException"])
    ELSE Success(Unit)

\* the exit of Effect.annotateCurrentSpan: a Success, with or without a
\* current span
AnnotateExit(r) == Success(Unit)

\* yield* first; then next: the generator goes on only after a Success
Then(first, next) == IF IsSuccess(first) THEN next ELSE first

\* ------------------------------------------------------------- sleeping
SleepPcs == {"db_sleep", "proc_sleep", "sched_sleep", "sfetch_sleep", "sproc_sleep"}

\* Schedule.exponential(base): base * 2^n for the n-th recurrence (from 0)
RECURSIVE Exponential(_, _)
Exponential(base, n) == IF n = 0 THEN base ELSE 2 * Exponential(base, n - 1)

SleepDelay(r) ==
    CASE pc[r] = "db_sleep" -> DbDelay
      [] pc[r] \in {"proc_sleep", "sproc_sleep"} -> ProcessDelay
      [] pc[r] = "sfetch_sleep" -> SimpleFetchDelay
      [] pc[r] = "sched_sleep" ->
            IF req[r].pipeline = "repeat" THEN SpacedDelay
            ELSE Exponential(RetryBase, Len(attempts[r]) - 1)

ResumeNext(p) ==
    CASE p = "db_sleep" -> "db_result"
      [] p = "proc_sleep" -> "proc_result"
      [] p = "sched_sleep" -> "sched_body"
      [] p = "sfetch_sleep" -> "sfetch_result"
      [] p = "sproc_sleep" -> "sproc_result"

\* mutant: the current span is lost over the suspension
ResumedSpanLost(r) == NoSpan

\* the current span of a run that resumes: the one it was suspended with (the
\* pointer is part of the state of the run)
ResumedSpan(r) == cur[r]

\* Effect.sleep(duration) elapses: the suspended run continues where it was
Resume(r) ==
    /\ pc[r] \in SleepPcs
    /\ now' = now + SleepDelay(r)
    /\ pc' = [pc EXCEPT ![r] = ResumeNext(pc[r])]
    /\ cur' = [cur EXCEPT ![r] = ResumedSpan(r)]
    /\ UNCHANGED <<req, userId, out, spans, log, acquired, released, events,
                   attempts, response>>


\* ------------------------------------------------- userRepository.findById
\* yield* Effect.logInfo(...); yield* Effect.sleep("50 millis")
FindByIdStart(r) ==
    /\ pc[r] = "db_query"
    /\ log' = Logged(r, "INFO", "DB: Querying user")
    /\ events' = Recorded(r, "findById", "userRepository", Pending, Pending, "none")
    /\ pc' = [pc EXCEPT ![r] = "db_sleep"]
    /\ UNCHANGED <<req, userId, out, cur, spans, acquired, released, attempts,
                   now, response>>

UserRecord(id, createdAt) ==
    [id |-> id, name |-> Str("John Doe"), email |-> Str("john@example.com"),
     createdAt |-> createdAt]

\* mutant: the "404" scenario is missing
FindByIdExitNo404(id, time) ==
    IF id = IdError
    THEN Failure(DatabaseError(Str("SELECT"), Str("Connection timeout")))
    ELSE Success([_tag |-> "Some", value |-> UserRecord(id, time)])

\* the scenarios simulated by the repository
FindByIdExit(id, time) ==
    IF id = IdError
    THEN Failure(DatabaseError(Str("SELECT"), Str("Connection timeout")))
    ELSE IF id = Id404 THEN Success([_tag |-> "None"])
    ELSE Success([_tag |-> "Some", value |-> UserRecord(id, time)])

FindByIdResult(r) ==
    /\ pc[r] = "db_result"
    /\ out' = [out EXCEPT ![r] = FindByIdExit(userId[r], now)]
    /\ pc' = [pc EXCEPT ![r] = "db_exit"]
    /\ UNCHANGED <<req, userId, cur, spans, log, acquired, released, events,
                   attempts, now, response>>

\* ----------------------------------------------------------- fetchUserData
\* logInfo, then the validation of the input, before the repository is used
FetchValidate(r) ==
    /\ pc[r] = "fetch_validate"
    /\ log' = Logged(r, "INFO", "Fetching user data")
    /\ IF IsInvalidUserId(userId[r])
       THEN /\ out' = [out EXCEPT ![r] =
                         Failure(ValidationError(Str("userId"),
                                                 Str("User ID cannot be empty")))]
            /\ pc' = [pc EXCEPT ![r] = "fetch_exit"]
       ELSE /\ out' = out
            /\ pc' = [pc EXCEPT ![r] = "db_enter"]
    /\ UNCHANGED <<req, userId, cur, spans, acquired, released, events, attempts,
                   now, response>>

\* Option.match(result, {onNone: fail(UserNotFound), onSome: succeed})
OptionMatch(option, id) ==
    IF option._tag = "None" THEN Failure(UserNotFound(id)) ELSE Success(option.value)

FetchMatch(r) ==
    /\ pc[r] = "fetch_match"
    /\ out' = [out EXCEPT ![r] = OptionMatch(out[r].value, userId[r])]
    /\ pc' = [pc EXCEPT ![r] = "fetch_exit"]
    /\ UNCHANGED <<req, userId, cur, spans, log, acquired, released, events,
                   attempts, now, response>>

\* mutant: businessLogic goes on with processUserData whatever the exit
AfterFetchAlways(o) == "proc_enter"

\* const user = yield* fetchUserData(userId): the generator of businessLogic
\* is resumed only with a Success; any other exit is the exit of the generator
AfterFetch(o) == IF IsSuccess(o) THEN "proc_enter" ELSE "bl_exit"

\* Effect.catchTag("DatabaseError", ...), composed after withSpan("user.fetch"):
\* logError, annotateCurrentSpan, fail(error)
FetchCatchTag(r) ==
    LET o == out[r]
        caught == IsFailureOf(o, FetchKinds)
        res == CatchTags(o, FetchKinds, Then(AnnotateExit(r), FetchHandler(o.value)))
    IN  /\ pc[r] = "fetch_catch"
        /\ out' = [out EXCEPT ![r] = res]
        /\ log' = IF caught THEN Logged(r, "ERROR", "Database error occurred") ELSE log
        /\ spans' = IF caught
                     THEN Annotated(r, {<<"error", Str("true")>>,
                                        <<"error.type", Str("DatabaseError")>>,
                                        <<"error.message", o.value.details>>})
                     ELSE spans
        /\ events' = Recorded(r, "catchTags", "fetchUserData", o, res,
                               CaughtTag(o, FetchKinds))
        /\ pc' = [pc EXCEPT ![r] =
                     IF req[r].pipeline = "fetchOnly" THEN "run_end"
                     ELSE AfterFetch(res)]
        /\ UNCHANGED <<req, userId, cur, acquired, released, attempts, now, response>>

\* --------------------------------------------------------- processUserData
\* mutant: the fields of user are not copied
SpreadExtraOnly(base, extra) == extra

\* { ...user, processed: true, timestamp: new Date().toISOString() }
Spread(base, extra) ==
    [k \in DOMAIN base \cup DOMAIN extra |->
        IF k \in DOMAIN extra THEN extra[k] ELSE base[k]]

ProcessStart(r) ==
    /\ pc[r] = "proc_start"
    /\ log' = Logged(r, "INFO", "Processing user")
    /\ IF Get(out[r].value, "id") = IdProcessError
       THEN /\ out' = [out EXCEPT ![r] =
                         Failure(DatabaseError(Str("UPDATE"),
                                               Str("Failed to update user status")))]
            /\ pc' = [pc EXCEPT ![r] = "proc_exit"]
       ELSE /\ out' = out
            /\ pc' = [pc EXCEPT ![r] = "proc_sleep"]
    /\ UNCHANGED <<req, userId, cur, spans, acquired, released, events, attempts,
                   now, response>>

ProcessResult(r) ==
    /\ pc[r] = "proc_result"
    /\ out' = [out EXCEPT ![r] =
                  Success(Spread(out[r].value, [processed |-> TRUE, timestamp |-> now]))]
    /\ pc' = [pc EXCEPT ![r] = "proc_exit"]
    /\ UNCHANGED <<req, userId, cur, spans, log, acquired, released, events,
                   attempts, now, response>>

\* ----------------------------------------------------------- businessLogic
BusinessStart(r) ==
    /\ pc[r] = "bl_start"
    /\ log' = Logged(r, "INFO", "Starting business logic")
    /\ pc' = [pc EXCEPT ![r] = "fetch_enter"]
    /\ UNCHANGED <<req, userId, out, cur, spans, acquired, released, events,
                   attempts, now, response>>

\* annotateCurrentSpan(result.*), logInfo("Business logic completed"), return
BusinessFinish(r) ==
    /\ pc[r] = "bl_finish"
    /\ spans' = Annotated(r, {<<"result.processed", Str("true")>>,
                              <<"result.timestamp", Str(ToString(out[r].value.timestamp))>>,
                              <<"result.success", Str("true")>>})
    /\ log' = Logged(r, "INFO", "Business logic completed")
    /\ pc' = [pc EXCEPT ![r] = "bl_exit"]
    /\ UNCHANGED <<req, userId, out, cur, acquired, released, events, attempts,
                   now, response>>

\* ------------------------------------- the first businessLogic (no failure)
SimpleBusinessStart(r) ==
    /\ pc[r] = "sbl_start"
    /\ log' = Logged(r, "INFO", "Starting business logic")
    /\ pc' = [pc EXCEPT ![r] = "sfetch_enter"]
    /\ UNCHANGED <<req, userId, out, cur, spans, acquired, released, events,
                   attempts, now, response>>

\* fetchUserData: logInfo, sleep("100 millis")
SimpleFetchStart(r) ==
    /\ pc[r] = "sfetch_start"
    /\ log' = Logged(r, "INFO", "Fetching user data")
    /\ pc' = [pc EXCEPT ![r] = "sfetch_sleep"]
    /\ UNCHANGED <<req, userId, out, cur, spans, acquired, released, events,
                   attempts, now, response>>

SimpleUserRecord(id) ==
    [id |-> id, name |-> Str("John Doe"), email |-> Str("john@example.com")]

\* fetchUserData: return {id: userId, name, email}
SimpleFetchResult(r) ==
    /\ pc[r] = "sfetch_result"
    /\ out' = [out EXCEPT ![r] = Success(SimpleUserRecord(userId[r]))]
    /\ pc' = [pc EXCEPT ![r] = "sfetch_exit"]
    /\ UNCHANGED <<req, userId, cur, spans, log, acquired, released, events,
                   attempts, now, response>>

\* processUserData: logInfo, sleep("50 millis")
SimpleProcessStart(r) ==
    /\ pc[r] = "sproc_start"
    /\ log' = Logged(r, "INFO", "Processing user")
    /\ pc' = [pc EXCEPT ![r] = "sproc_sleep"]
    /\ UNCHANGED <<req, userId, out, cur, spans, acquired, released, events,
                   attempts, now, response>>

SimpleProcessResult(r) ==
    /\ pc[r] = "sproc_result"
    /\ out' = [out EXCEPT ![r] =
                  Success(Spread(out[r].value, [processed |-> TRUE, timestamp |-> now]))]
    /\ pc' = [pc EXCEPT ![r] = "sproc_exit"]
    /\ UNCHANGED <<req, userId, cur, spans, log, acquired, released, events,
                   attempts, now, response>>

\* annotateCurrentSpan(result.processed, result.timestamp), logInfo, return
SimpleBusinessFinish(r) ==
    /\ pc[r] = "sbl_finish"
    /\ spans' = Annotated(r, {<<"result.processed", Str("true")>>,
                              <<"result.timestamp", Str(ToString(out[r].value.timestamp))>>})
    /\ log' = Logged(r, "INFO", "Business logic completed")
    /\ pc' = [pc EXCEPT ![r] = "sbl_exit"]
    /\ UNCHANGED <<req, userId, out, cur, acquired, released, events, attempts,
                   now, response>>

PipeEntry(pl) ==
    IF pl \in {"repeat", "retry", "tryCatch", "tryCatchSimple", "fetchOnly"}
    THEN "run_end"
    ELSE "pipe1"

BusinessLogMessage(tag) ==
    CASE tag = "ValidationError" -> [level |-> "WARN", msg |-> "Validation failed"]
      [] tag = "UserNotFound" -> [level |-> "WARN", msg |-> "User not found"]
      [] tag = "DatabaseError" -> [level |-> "ERROR", msg |-> "Database error"]

\* Effect.catchTags({...}), composed after withSpan("business.main")
BusinessCatchTags(r) ==
    LET o == out[r]
        tag == CaughtTag(o, BusinessKinds)
        res == CatchTags(o, BusinessKinds, BusinessHandler(o.value))
    IN  /\ pc[r] = "bl_catch"
        /\ out' = [out EXCEPT ![r] = res]
        /\ log' = IF tag = "none" THEN log
                   ELSE [log EXCEPT ![r] = Append(@, BusinessLogMessage(tag))]
        /\ events' = Recorded(r, "catchTags", "businessLogic", o, res, tag)
        /\ pc' = [pc EXCEPT ![r] =
                     IF acquired[r] # <<>> THEN "release" ELSE PipeEntry(req[r].pipeline)]
        /\ UNCHANGED <<req, userId, cur, spans, acquired, released, attempts, now,
                       response>>


\* mutant: the finalizers run in the order of acquisition
ReleaseInOrder(r) ==
    /\ pc[r] = "release"
    /\ acquired[r] # <<>>
    /\ released' = [released EXCEPT ![r] = Append(@, Head(acquired[r]))]
    /\ acquired' = [acquired EXCEPT ![r] = Tail(@)]
    /\ pc' = [pc EXCEPT ![r] =
                 IF Len(acquired[r]) = 1 THEN PipeEntry(req[r].pipeline) ELSE "release"]
    /\ UNCHANGED <<req, userId, out, cur, spans, log, events, attempts, now, response>>

\* ---------------------------------------------------------- scope of provide
\* the scope of Effect.provide(TracingLive) closes when the provided effect has
\* exited: the finalizers run last acquired first
Release(r) ==
    /\ pc[r] = "release"
    /\ acquired[r] # <<>>
    /\ released' = [released EXCEPT ![r] = Append(@, acquired[r][Len(acquired[r])])]
    /\ acquired' = [acquired EXCEPT ![r] = SubSeq(@, 1, Len(@) - 1)]
    /\ pc' = [pc EXCEPT ![r] =
                 IF Len(acquired[r]) = 1 THEN PipeEntry(req[r].pipeline) ELSE "release"]
    /\ UNCHANGED <<req, userId, out, cur, spans, log, events, attempts, now, response>>

\* ------------------------------------------------------ stages of the pipe
PipeKinds(pl) == IF pl = "catchTags" THEN RouteKinds ELSE NoteKinds
PipeHandler(pl, error) ==
    IF pl = "catchTags" THEN RouteHandler(error) ELSE NoteHandler(error)

\* mutant: the two stages are composed in the other order
StageAtSwapped(pl, p) ==
    IF pl = "catchTags"
    THEN (IF p = "pipe1" THEN "catchTags" ELSE "map")
    ELSE (IF p = "pipe1" THEN "map" ELSE "catchTags")

\* the stage at each position of the pipe: index.ts has map, then catchTags;
\* the order note has catchTags, then map
StageAt(pl, p) ==
    IF pl = "catchTags"
    THEN (IF p = "pipe1" THEN "map" ELSE "catchTags")
    ELSE (IF p = "pipe1" THEN "catchTags" ELSE "map")

PipeNext(p) == IF p = "pipe1" THEN "pipe2" ELSE "run_end"

PipeMap(r) ==
    LET o == out[r]
        res == MapOutcome(o, WrapSuccess(o.value))
    IN  /\ req[r].pipeline \in {"catchTags", "catchThenMap"}
        /\ pc[r] \in {"pipe1", "pipe2"}
        /\ StageAt(req[r].pipeline, pc[r]) = "map"
        /\ out' = [out EXCEPT ![r] = res]
        /\ events' = Recorded(r, "map", "route", o, res,
                               IF IsSuccess(o) THEN "f" ELSE "none")
        /\ pc' = [pc EXCEPT ![r] = PipeNext(pc[r])]
        /\ UNCHANGED <<req, userId, cur, spans, log, acquired, released, attempts,
                       now, response>>

PipeCatchTags(r) ==
    LET o == out[r]
        pl == req[r].pipeline
        res == CatchTags(o, PipeKinds(pl), PipeHandler(pl, o.value))
    IN  /\ pl \in {"catchTags", "catchThenMap"}
        /\ pc[r] \in {"pipe1", "pipe2"}
        /\ StageAt(pl, pc[r]) = "catchTags"
        /\ out' = [out EXCEPT ![r] = res]
        /\ events' = Recorded(r, "catchTags", "route", o, res, CaughtTag(o, PipeKinds(pl)))
        /\ pc' = [pc EXCEPT ![r] = PipeNext(pc[r])]
        /\ UNCHANGED <<req, userId, cur, spans, log, acquired, released, attempts,
                       now, response>>

PipeEither(r) ==
    LET o == out[r]
        res == Either(o)
    IN  /\ req[r].pipeline = "either"
        /\ pc[r] = "pipe1"
        /\ out' = [out EXCEPT ![r] = res]
        /\ events' = Recorded(r, "either", "route", o, res, "none")
        /\ pc' = [pc EXCEPT ![r] = "run_end"]
        /\ UNCHANGED <<req, userId, cur, spans, log, acquired, released, attempts,
                       now, response>>

PipeExit(r) ==
    LET o == out[r]
        res == Exit(o)
    IN  /\ req[r].pipeline = "exit"
        /\ pc[r] = "pipe1"
        /\ out' = [out EXCEPT ![r] = res]
        /\ events' = Recorded(r, "exit", "route", o, res, "none")
        /\ pc' = [pc EXCEPT ![r] = "run_end"]
        /\ UNCHANGED <<req, userId, cur, spans, log, acquired, released, attempts,
                       now, response>>

\* ------------------------------------------------------------ the trigger
\* the branches on result._tag and on the class of result.left
EitherResponse(result) ==
    IF result._tag = "Right"
    THEN Json([success |-> TRUE, data |-> result.right], 200)
    ELSE LET error == result.left
         IN  CASE error._tag = "ValidationError" ->
                    Json([success |-> FALSE,
                          error |-> [type |-> "ValidationError", field |-> error.field,
                                     message |-> error.message]], 400)
               [] error._tag = "UserNotFound" ->
                    Json([success |-> FALSE,
                          error |-> [type |-> "UserNotFound",
                                     message |-> error.message]], 404)
               [] error._tag = "DatabaseError" ->
                    Json([success |-> FALSE,
                          error |-> [type |-> "DatabaseError",
                                     operation |-> error.operation,
                                     details |-> error.details]], 500)
               [] OTHER ->
                    Json([success |-> FALSE,
                          error |-> [type |-> "UnknownError",
                                     message |-> Str("Unknown error")]], 500)

\* Effect.runPromise rejects unless the exit is a Success; the handlers have no
\* catch, so the rejection leaves the handler and the request is answered 500
Rejected(o) == Json([success |-> FALSE, rejected |-> o.tag], 500)

\* error.message of the rejection: the message of the error the run ended
\* with, or the name of what ended it when it carries none
CauseMessage(o) ==
    IF "message" \in DOMAIN o.value THEN o.value.message ELSE Str(o.value._tag)

\* try { ... return c.json({success: true, data: result}) }
\* catch (error) { return c.json({success: false, error: error.message}, 500) }
TryCatchResponse(o) ==
    IF IsSuccess(o) THEN Json([success |-> TRUE, data |-> o.value], 200)
    ELSE Json([success |-> FALSE, error |-> CauseMessage(o)], 500)

Respond(request, o) ==
    IF request.call # "http" THEN NoResponse
    ELSE IF request.pipeline \in {"tryCatch", "tryCatchSimple"} THEN TryCatchResponse(o)
    ELSE IF ~IsSuccess(o) THEN Rejected(o)
    ELSE IF request.pipeline = "either" THEN EitherResponse(o.value)
    ELSE o.value

\* await Effect.runPromise(...) settles and the handler returns
Settle(r) ==
    /\ pc[r] = "run_end"
    /\ response' = [response EXCEPT ![r] = Respond(req[r], out[r])]
    /\ pc' = [pc EXCEPT ![r] = "done"]
    /\ UNCHANGED <<req, userId, out, cur, spans, log, acquired, released, events,
                   attempts, now>>

\* ------------------------------------------------------ repeat and retry
\* the exits of the scheduled body (fetchUsersFromDB, processUser are external)
BodyExits ==
    {Success(Unit),
     Failure(DatabaseError(Str("SELECT"), Str("Connection timeout"))),
     Defect([_tag |-> "UnknownException"])}

BodyRun(r) ==
    /\ pc[r] = "sched_body"
    /\ \E o \in BodyExits :
          /\ out' = [out EXCEPT ![r] = o]
          /\ attempts' = [attempts EXCEPT ![r] = Append(@, o.tag)]
    /\ pc' = [pc EXCEPT ![r] = "sched_decide"]
    /\ UNCHANGED <<req, userId, cur, spans, log, acquired, released, events, now,
                   response>>

\* mutant: retry recurs after any exit that is not a Success
RecursUnlessSuccess(pl, o) ==
    IF pl = "repeat" THEN IsSuccess(o) ELSE ~IsSuccess(o)

\* Effect.repeat recurs after a Success, Effect.retry after a Failure
Recurs(pl, o) ==
    IF pl = "repeat" THEN IsSuccess(o) ELSE IsFailure(o)

ScheduleNext(r) ==
    /\ pc[r] = "sched_decide"
    /\ pc' = [pc EXCEPT ![r] =
                 IF Recurs(req[r].pipeline, out[r]) /\ Len(attempts[r]) <= MaxRecurs
                 THEN "sched_sleep"
                 ELSE IF req[r].pipeline = "repeat" THEN "bg_exit" ELSE "run_end"]
    /\ UNCHANGED <<req, userId, out, cur, spans, log, acquired, released, events,
                   attempts, now, response>>

\* ------------------------------------------------------------ cancellation
CancelPcs == SleepPcs \cup {"acquire"}

\* the wrapper (or scope) the interruption reaches first
CancelNext(r) ==
    CASE pc[r] = "db_sleep" -> "db_exit"
      [] pc[r] = "proc_sleep" -> "proc_exit"
      [] pc[r] = "sfetch_sleep" -> "sfetch_exit"
      [] pc[r] = "sproc_sleep" -> "sproc_exit"
      [] pc[r] = "sched_sleep" -> IF req[r].pipeline = "repeat" THEN "bg_exit" ELSE "run_end"
      [] pc[r] = "acquire" ->
            IF acquired[r] # <<>> THEN "release" ELSE PipeEntry(req[r].pipeline)

\* the run is interrupted while suspended: the exit in flight is Interrupted
\* and every enclosing wrapper and scope is exited with it
Cancel(r) ==
    /\ pc[r] \in CancelPcs
    /\ out' = [out EXCEPT ![r] = Interrupted]
    /\ events' = Recorded(r, "cancel", pc[r], out[r], Interrupted, "none")
    /\ pc' = [pc EXCEPT ![r] = CancelNext(r)]
    /\ UNCHANGED <<req, userId, cur, spans, log, acquired, released, attempts, now,
                   response>>

\* --------------------------------------------------------- specification
Next ==
    \E r \in Runs :
        \/ Request(r)
        \/ Provide(r)
        \/ WithSpanEnter(r)
        \/ WithSpanExit(r)
        \/ Resume(r)
        \/ FindByIdStart(r)
        \/ FindByIdResult(r)
        \/ FetchValidate(r)
        \/ FetchMatch(r)
        \/ FetchCatchTag(r)
        \/ ProcessStart(r)
        \/ ProcessResult(r)
        \/ BusinessStart(r)
        \/ BusinessFinish(r)
        \/ BusinessCatchTags(r)
        \/ Release(r)
        \/ PipeMap(r)
        \/ PipeCatchTags(r)
        \/ PipeEither(r)
        \/ Settle(r)
        \/ BodyRun(r)
        \/ ScheduleNext(r)
        \/ Cancel(r)
        \/ SimpleBusinessStart(r)
        \/ SimpleFetchStart(r)
        \/ SimpleFetchResult(r)
        \/ SimpleProcessStart(r)
        \/ SimpleProcessResult(r)
        \/ SimpleBusinessFinish(r)
        \/ PipeExit(r)

Spec == Init /\ [][Next]_vars

SpecPair == InitPair /\ [][Next]_vars


\* ================================================================ claims
Finished(r) == pc[r] \in {"run_end", "done"}
BusinessPipelines == {"catchTags", "either", "catchThenMap"}
EventsOf(r, op, site) ==
    {i \in DOMAIN events[r] : events[r][i].op = op /\ events[r][i].site = site}
Cancelled(r) == \E i \in DOMAIN events[r] : events[r][i].op = "cancel"
\* businessLogic has exited, with exit b
BusinessExited(r, b) ==
    \E i \in EventsOf(r, "catchTags", "businessLogic") : events[r][i].out = b
NotFound404 == [_tag |-> "UserNotFound", userId |-> Id404,
                message |-> <<"User with ID ", "4", "0", "4", " not found">>]
Invalid400 == [_tag |-> "ValidationError", field |-> <<"userId">>,
               message |-> <<"User ID cannot be empty">>]
NotFoundJson ==
    [status |-> 404,
     body |-> [success |-> FALSE,
               error |-> [type |-> "UserNotFound", message |-> NotFound404.message]]]
InvalidJson ==
    [status |-> 400,
     body |-> [success |-> FALSE,
               error |-> [type |-> "ValidationError", field |-> <<"userId">>,
                          message |-> <<"User ID cannot be empty">>]]]
\* the recovery response of the handler of a handled kind
RecoveryOf(error) == IF error = NotFound404 THEN NotFoundJson ELSE InvalidJson

\* C1: ordering law. When businessLogic ends in a Failure of a kind the pipe
\* handles, map-then-catchTags ends in exactly the handler's recovery response
\* and f is never applied, while catchTags-then-map ends in f applied to the
\* recovery response (the error response wrapped as success data); the two
\* results differ.
C1_OrderingLaw ==
    \A r \in Runs :
        \A b \in {Failure(NotFound404), Failure(Invalid400)} :
            (Finished(r) /\ BusinessExited(r, b)) =>
                /\ req[r].pipeline = "catchTags" =>
                      /\ out[r] = Success(RecoveryOf(b.value))
                      /\ \A i \in EventsOf(r, "map", "route") :
                            events[r][i].handler = "none" /\ events[r][i].out = b
                /\ (req[r].pipeline = "catchThenMap" /\ b.value._tag = "UserNotFound") =>
                      /\ out[r] = Success([status |-> 200,
                                            body |-> [success |-> TRUE,
                                                      data |-> RecoveryOf(b.value)]])
                      /\ out[r] # Success(RecoveryOf(b.value))
                      /\ \E i \in EventsOf(r, "map", "route") :
                            /\ events[r][i].handler = "f"
                            /\ events[r][i].in = Success(RecoveryOf(b.value))

\* both pipes have finished a run that failed with a handled kind
C1_Witness ==
    \E r \in Runs :
        /\ pc[r] = "done"
        /\ BusinessExited(r, Failure(NotFound404))
        /\ req[r].pipeline = "catchThenMap"
        /\ response[r].status = 200
        /\ response[r].body.data.status = 404

\* the kinds with a handler at each catchTag / catchTags of the sources
HandledAt(r, site) ==
    CASE site = "fetchUserData" -> {"DatabaseError"}
      [] site = "businessLogic" -> {"ValidationError", "UserNotFound", "DatabaseError"}
      [] site = "route" ->
            IF req[r].pipeline = "catchTags" THEN {"ValidationError", "UserNotFound"}
            ELSE {"UserNotFound"}

\* the exit of running the handler of site on error: fetchUserData logs, annotates
\* and fails again; businessLogic fails again, or dies for a DatabaseError; the
\* route succeeds with the error response
HandlerExit(site, error) ==
    CASE site = "fetchUserData" -> [tag |-> "Failure", value |-> error]
      [] site = "businessLogic" ->
            [tag |-> IF error._tag = "DatabaseError" THEN "Defect" ELSE "Failure",
             value |-> error]
      [] site = "route" ->
            [tag |-> "Success",
             value |-> IF error._tag = "UserNotFound"
                       THEN [status |-> 404,
                             body |-> [success |-> FALSE,
                                       error |-> [type |-> "UserNotFound",
                                                  message |-> error.message]]]
                       ELSE [status |-> 400,
                             body |-> [success |-> FALSE,
                                       error |-> [type |-> "ValidationError",
                                                  field |-> error.field,
                                                  message |-> error.message]]]]

\* C2: catchTags dispatch. At every catchTag / catchTags, a Failure whose kind
\* has a handler yields exactly the exit of that handler run on the error; a
\* Failure of a kind without a handler is re-raised unchanged; a Success, a
\* Defect (or an interruption) passes through unchanged and no handler runs.
C2_CatchTagsDispatch ==
    \A r \in Runs :
        \A i \in DOMAIN events[r] :
            LET e == events[r][i] IN
            e.op = "catchTags" =>
                IF e.in.tag = "Failure" /\ e.in.value._tag \in HandledAt(r, e.site)
                THEN /\ e.out = HandlerExit(e.site, e.in.value)
                     /\ e.handler = e.in.value._tag
                ELSE /\ e.out = e.in
                     /\ e.handler = "none"

\* a run in which one catchTag re-raised a Failure it has no handler for, and a
\* later catchTags recovered from it
C2_Witness ==
    \E r \in Runs :
        /\ \E i \in EventsOf(r, "catchTags", "fetchUserData") :
              /\ events[r][i].in = Failure(NotFound404)
              /\ events[r][i].out = Failure(NotFound404)
              /\ events[r][i].handler = "none"
        /\ \E i \in EventsOf(r, "catchTags", "route") :
              /\ events[r][i].in = Failure(NotFound404)
              /\ events[r][i].out = Success(NotFoundJson)
              /\ events[r][i].handler = "UserNotFound"

\* C3: map transforms only a Success payload. At every map, a Failure or a
\* Defect comes out identical and f is not invoked; a Success(v) comes out as
\* Success(f(v)).
C3_MapOnlySuccess ==
    \A r \in Runs :
        \A i \in DOMAIN events[r] :
            LET e == events[r][i] IN
            e.op = "map" =>
                IF e.in.tag = "Success"
                THEN /\ e.out = [tag |-> "Success",
                                  value |-> [status |-> 200,
                                             body |-> [success |-> TRUE,
                                                       data |-> e.in.value]]]
                     /\ e.handler = "f"
                ELSE /\ e.out = e.in
                     /\ e.handler = "none"

\* a map that was given a Failure, and a map that was given a Defect
C3_Witness ==
    \E r \in Runs :
        \E i \in EventsOf(r, "map", "route") :
            /\ events[r][i].in.tag \in {"Failure", "Defect"}
            /\ events[r][i].out = events[r][i].in
            /\ pc[r] = "done"

\* ---------------------------------------------------------------- spans
SpansOf(r) == {i \in DOMAIN spans : spans[i].run = r}
SpansNamed(r, name) == {i \in SpansOf(r) : spans[i].name = name}
PastWrappers(r) == pc[r] \in {"release", "pipe1", "pipe2", "run_end", "done"}

\* the exit of the description each wrapper wraps, when it is not interrupted
WrappedExit(r, name) ==
    CASE req[r].pipeline = "tryCatchSimple" -> "Success"
      [] name = "db.query" ->
            IF userId[r] = IdError THEN "Failure" ELSE "Success"
      [] name = "user.fetch" ->
            IF userId[r] \in {IdEmpty, IdBlank, IdBlanks, Id404, IdError}
            THEN "Failure" ELSE "Success"
      [] name = "user.process" ->
            IF userId[r] = IdProcessError THEN "Failure" ELSE "Success"
      [] name = "business.main" ->
            IF userId[r] \in {IdEmpty, IdBlank, IdBlanks, Id404, IdError, IdProcessError}
            THEN "Failure" ELSE "Success"
      [] name = "background.task" -> attempts[r][Len(attempts[r])]

\* C4: every span opened by a span wrapper is closed exactly once, with status
\* error if and only if the wrapped description terminated in Failure or
\* Defect and ok otherwise, also when the description suspended in a sleep and
\* when the run was cancelled while the span was open.
C4_SpanClosedOnce ==
    \A i \in DOMAIN spans :
        LET sp == spans[i] IN
        /\ sp.ends <= 1
        /\ PastWrappers(sp.run) => sp.ends = 1
        /\ sp.ends = 0 => sp.status = "unset"
        /\ sp.ends = 1 =>
              /\ sp.exit = IF sp.exit = "Interrupted" /\ Cancelled(sp.run)
                            THEN "Interrupted" ELSE WrappedExit(sp.run, sp.name)
              /\ sp.status = IF sp.exit \in {"Failure", "Defect"} THEN "error" ELSE "ok"

\* a run cancelled during the sleep of db.query: the three spans that were open
\* are closed once each, and none is marked error
C4_Witness ==
    \E r \in Runs :
        /\ pc[r] = "done"
        /\ Cancelled(r)
        /\ Cardinality(SpansOf(r)) = 3
        /\ \A i \in SpansOf(r) :
              spans[i].ends = 1 /\ spans[i].status = "ok" /\ spans[i].exit = "Interrupted"

\* the chain from span i up to the root, in the span store sp
RECURSIVE Ancestors(_, _)
Ancestors(sp, i) == IF i = NoSpan THEN {} ELSE {i} \cup Ancestors(sp, sp[i].parent)

\* one step of a run, as far as the current-span pointer is concerned
C5_Step(r) ==
    LET opened == Len(spans') = Len(spans) + 1 /\ spans'[Len(spans')].run = r IN
    /\ opened =>
          /\ spans'[Len(spans')].parent = cur[r]
          /\ cur'[r] = Len(spans')
    /\ (~opened /\ cur'[r] # cur[r]) =>
          /\ cur[r] # NoSpan
          /\ cur'[r] = spans[cur[r]].parent
          /\ spans[cur[r]].ends = 0 /\ spans'[cur[r]].ends = 1
    /\ {i \in DOMAIN spans' : spans'[i].run = r /\ spans'[i].ends = 0}
          = Ancestors(spans', cur'[r])
    /\ pc'[r] \in {"run_end", "done"} => cur'[r] = NoSpan

\* C5: current-span stack discipline. Entering a span wrapper makes the new
\* span a child of the span that was current; exiting it, for whatever reason,
\* restores exactly the span that was current before entry (one level up);
\* when the run completes the pointer is back at NoSpan.
C5_StackDiscipline == [][\A r \in Runs : C5_Step(r)]_vars

\* db.query has been exited: the pointer is back on user.fetch, not further up
C5_Witness ==
    \E r \in Runs :
        /\ cur[r] # NoSpan
        /\ spans[cur[r]].name = "user.fetch"
        /\ spans[cur[r]].parent # NoSpan
        /\ \E i \in SpansNamed(r, "db.query") :
              spans[i].parent = cur[r] /\ spans[i].ends = 1

\* ------------------------------------------------------------ capabilities
Reverse(q) == [i \in 1..Len(q) |-> q[Len(q) + 1 - i]]

\* the capabilities the run has acquired so far, in order of acquisition
AcquiredSoFar(r) ==
    LET acq == SelectSeq(events[r], LAMBDA e : e.op = "acquire")
    IN  [i \in 1..Len(acq) |-> acq[i].site]

\* C6: cancelling a run at a suspension point runs the release of every
\* capability acquired so far exactly once, in reverse order of acquisition,
\* and the run ends Interrupted, which is none of Success, Failure or Defect.
\* (At every moment, and for every kind of exit, what has been released followed
\* by what is still to be released, last acquired first, is the reverse of what
\* was acquired.)
C6_CancelReleases ==
    \A r \in Runs :
        /\ released[r] \o Reverse(acquired[r]) = Reverse(AcquiredSoFar(r))
        /\ Finished(r) => acquired[r] = <<>>
        /\ (Finished(r) /\ Cancelled(r)) =>
              /\ released[r] = Reverse(AcquiredSoFar(r))
              /\ out[r].tag = "Interrupted"
              /\ out[r] \notin {Success(out[r].value), Failure(out[r].value),
                                 Defect(out[r].value)}

\* a run cancelled in a sleep, after the whole layer had been acquired
C6_Witness ==
    \E r \in Runs :
        /\ pc[r] = "done"
        /\ Cancelled(r)
        /\ spans # <<>>
        /\ released[r] = <<"Tracer", "TracerProvider", "Resource">>
        /\ out[r] = Interrupted

\* -------------------------------------------------------- repeat and retry
LoopOver(r) == pc[r] \in {"bg_exit", "release", "run_end", "done"} /\ ~Cancelled(r)
LastAttempt(r) == attempts[r][Len(attempts[r])]

C8_Success123 ==
    \A r \in Runs :
        (req[r].pipeline \in BusinessPipelines /\ userId[r] = Id123 /\ ~Cancelled(r)
         /\ PastWrappers(r)) =>
            /\ \E i \in EventsOf(r, "catchTags", "businessLogic") :
                  LET b == events[r][i].out IN
                  /\ b.tag = "Success"
                  /\ DOMAIN b.value
                        = {"id", "name", "email", "createdAt", "processed", "timestamp"}
                  /\ b.value.id = Id123
                  /\ b.value.name = <<"John Doe">>
                  /\ b.value.email = <<"john@example.com">>
                  /\ b.value.processed = TRUE
            /\ Cardinality(EventsOf(r, "findById", "userRepository")) = 1
            /\ \E f \in SpansNamed(r, "user.fetch") :
                  /\ spans[f].ends = 1 /\ spans[f].status = "ok"
                  /\ SpansNamed(r, "user.fetch") = {f}
                  /\ \E p \in SpansNamed(r, "user.process") : f < p
                  /\ \E q \in SpansNamed(r, "db.query") : spans[q].status = "ok"

\* GET /test/ (no path segment) has been answered with the enriched record
C8_Witness ==
    \E r \in Runs :
        /\ pc[r] = "done"
        /\ userId[r] = Id123
        /\ ~req[r].param.defined
        /\ req[r].pipeline = "catchTags"
        /\ response[r].status = 200
        /\ response[r].body.data.processed = TRUE

\* C9: businessLogic("404"): the lookup returns no record, the exit is a
\* Failure of kind UserNotFound carrying the id "404", and the HTTP trigger
\* answers with a 404 response.
C9_NotFound404 ==
    \A r \in Runs :
        (req[r].pipeline \in BusinessPipelines /\ userId[r] = Id404 /\ ~Cancelled(r)
         /\ PastWrappers(r)) =>
            /\ \E i \in EventsOf(r, "catchTags", "businessLogic") :
                  events[r][i].out = [tag |-> "Failure", value |-> NotFound404]
            /\ Cardinality(EventsOf(r, "findById", "userRepository")) = 1
            /\ \A q \in SpansNamed(r, "db.query") : spans[q].status = "ok"
            /\ SpansNamed(r, "user.process") = {}
            /\ (pc[r] = "done" /\ req[r].call = "http"
                /\ req[r].pipeline \in {"catchTags", "either"}) =>
                  /\ response[r].status = 404
                  /\ response[r].body.success = FALSE
                  /\ response[r].body.error.type = "UserNotFound"

\* GET /test/404 has been answered by the either-based handler
C9_Witness ==
    \E r \in Runs :
        /\ pc[r] = "done"
        /\ req[r].call = "http"
        /\ req[r].pipeline = "either"
        /\ userId[r] = Id404
        /\ response[r] = NotFoundJson

\* C10: businessLogic with an empty or whitespace-only userId ends in a Failure
\* of kind ValidationError with field = "userId", produced before the lookup:
\* userRepository.findById is never called and no db.query span is opened.
C10_ValidationFirst ==
    \A r \in Runs :
        (req[r].pipeline \in BusinessPipelines /\ pc[r] # "start"
         /\ userId[r] \in {IdEmpty, IdBlank, IdBlanks}) =>
            /\ EventsOf(r, "findById", "userRepository") = {}
            /\ SpansNamed(r, "db.query") = {}
            /\ (PastWrappers(r) /\ ~Cancelled(r)) =>
                  /\ \E i \in EventsOf(r, "catchTags", "businessLogic") :
                        /\ events[r][i].out.tag = "Failure"
                        /\ events[r][i].out.value._tag = "ValidationError"
                        /\ events[r][i].out.value.field = <<"userId">>
                  /\ \A f \in SpansNamed(r, "user.fetch") : spans[f].status = "error"

\* businessLogic("") called directly has ended in Left(ValidationError)
C10_Witness ==
    \E r \in Runs :
        /\ pc[r] = "done"
        /\ req[r].call = "direct"
        /\ userId[r] = IdEmpty
        /\ out[r] = Success([_tag |-> "Left", left |-> Invalid400])
        /\ SpansNamed(r, "db.query") = {}

\* ------------------------------------------------------------ faults
\* the pipelines that run the businessLogic of tracing-example.ts
FullPipelines == {"catchTags", "either", "catchThenMap", "tryCatch", "exit"}
SelectTimeout ==
    [_tag |-> "DatabaseError", operation |-> <<"SELECT">>,
     details |-> <<"Connection timeout">>]
UpdateFailed ==
    [_tag |-> "DatabaseError", operation |-> <<"UPDATE">>,
     details |-> <<"Failed to update user status">>]

\* C11: businessLogic("error"): the lookup fails with DatabaseError, the
\* DatabaseError handler of businessLogic converts it to a Defect, the exit of
\* the run is that Defect, the HTTP trigger answers 500 without the typed error
\* responses, and db.query, the span in which the fault occurred, is closed
\* with status error.
C11_FaultIsDefect ==
    \A r \in Runs :
        (req[r].pipeline \in FullPipelines /\ userId[r] = IdError /\ ~Cancelled(r)
         /\ PastWrappers(r)) =>
            /\ \E i \in EventsOf(r, "catchTags", "businessLogic") :
                  /\ events[r][i].in = [tag |-> "Failure", value |-> SelectTimeout]
                  /\ events[r][i].out = [tag |-> "Defect", value |-> SelectTimeout]
            /\ \A q \in SpansNamed(r, "db.query") :
                  spans[q].ends = 1 /\ spans[q].status = "error"
            /\ Cardinality(SpansNamed(r, "db.query")) = 1
            /\ \A q \in SpansOf(r) : spans[q].status = "error"
            /\ Finished(r) =>
                  IF req[r].pipeline = "exit"
                  THEN out[r].tag = "Success" /\ out[r].value.cause._tag = "Die"
                  ELSE out[r] = [tag |-> "Defect", value |-> SelectTimeout]
            /\ (pc[r] = "done" /\ req[r].call = "http") =>
                  /\ response[r].status = 500
                  /\ response[r].body.success = FALSE
                  /\ "data" \notin DOMAIN response[r].body

\* GET /test/error has been answered by the handler of index.ts
C11_Witness ==
    \E r \in Runs :
        /\ pc[r] = "done"
        /\ req[r].pipeline = "catchTags"
        /\ userId[r] = IdError
        /\ out[r].tag = "Defect"
        /\ response[r].status = 500
        /\ \E q \in SpansNamed(r, "db.query") : spans[q].status = "error"

\* C12: a request to /test/ with no userId path segment is a validation
\* failure: businessLogic is run with the empty userId and the response is the
\* ValidationError response, with status 400.
C12_NoSegmentIs400 ==
    \A r \in Runs :
        (pc[r] = "done" /\ req[r].call = "http" /\ ~req[r].param.defined
         /\ req[r].pipeline \in {"catchTags", "either"} /\ ~Cancelled(r)) =>
            /\ userId[r] = IdEmpty
            /\ response[r].status = 400
            /\ response[r] = InvalidJson

\* C13: Effect.either captures every error, also a DatabaseError that the
\* handler of businessLogic converted with die: businessLogic("error") piped
\* through either completes with Left(DatabaseError), and the either-based
\* handler reaches its DatabaseError branch and answers 500 with type
\* DatabaseError.
C13_EitherCapturesDie ==
    \A r \in Runs :
        (Finished(r) /\ req[r].pipeline = "either" /\ userId[r] = IdError
         /\ ~Cancelled(r)) =>
            /\ out[r] = [tag |-> "Success",
                         value |-> [_tag |-> "Left", left |-> SelectTimeout]]
            /\ (pc[r] = "done" /\ req[r].call = "http") =>
                  /\ response[r].status = 500
                  /\ response[r].body.error.type = "DatabaseError"

\* what one step of run r does to a Defect in flight, and what the conversions
\* recorded so far did
C14_Step(r) ==
    /\ out[r].tag = "Defect" =>
          \/ out'[r] = out[r]
          \/ /\ req[r].pipeline = "exit"
             /\ out'[r] = [tag |-> "Success",
                           value |-> [_tag |-> "Failure",
                                      cause |-> [_tag |-> "Die",
                                                 defect |-> out[r].value]]]
    /\ \A i \in DOMAIN events'[r] :
          LET e == events'[r][i] IN
          /\ e.in.tag = "Defect" => e.out.tag # "Failure"
          /\ (e.in.tag = "Defect" /\ e.op # "exit") => e.out = e.in
          /\ e.op = "either" =>
                e.out = CASE e.in.tag = "Success" ->
                               [tag |-> "Success",
                                value |-> [_tag |-> "Right", right |-> e.in.value]]
                          [] e.in.tag = "Failure" ->
                               [tag |-> "Success",
                                value |-> [_tag |-> "Left", left |-> e.in.value]]
                          [] OTHER -> e.in
    /\ (pc'[r] = "done" /\ out'[r].tag = "Defect" /\ req[r].call = "http") =>
          response'[r].status = 500

HttpPipelines == {"catchTags", "either", "tryCatch", "tryCatchSimple"}

\* the terminal outcome of the run of businessLogic that the trigger started
Terminal(r) ==
    IF Cancelled(r) THEN Interrupted
    ELSE IF req[r].pipeline = "tryCatchSimple" THEN out[r]
    ELSE LET i == CHOOSE j \in EventsOf(r, "catchTags", "businessLogic") : TRUE
         IN  events[r][i].out

\* C15: the HTTP trigger chooses its response from the terminal outcome of the
\* run: a Failure by its kind (ValidationError 400, UserNotFound 404), a Defect
\* as an internal fault (500), Interrupted with no response; a run that ends in
\* Success, Failure or Defect is answered (once).
C15_ResponseByOutcome ==
    \A r \in Runs :
        (pc[r] = "done" /\ req[r].call = "http" /\ req[r].pipeline \in HttpPipelines) =>
            LET t == Terminal(r) IN
            /\ t.tag = "Success" => response[r].status = 200
            /\ (t.tag = "Failure" /\ t.value._tag = "ValidationError") =>
                  response[r].status = 400
            /\ (t.tag = "Failure" /\ t.value._tag = "UserNotFound") =>
                  response[r].status = 404
            /\ t.tag = "Defect" => response[r].status = 500
            /\ t.tag = "Interrupted" => response[r] = NoResponse
            /\ t.tag \in {"Success", "Failure", "Defect"} => response[r] # NoResponse

\* ------------------------------------------------------------ replay
\* the position of span i among the spans of its run
RankIn(r, i) == Cardinality({j \in SpansOf(r) : j <= i})

\* the span tree of a run: names, parent links and statuses
Shape(r) ==
    {[rank |-> RankIn(r, i), name |-> spans[i].name,
      parent |-> IF spans[i].parent = NoSpan THEN 0
                 ELSE IF spans[spans[i].parent].run # r THEN -1
                 ELSE RankIn(r, spans[i].parent),
      status |-> spans[i].status] : i \in SpansOf(r)}

LogsOf(r, msg) == {i \in DOMAIN log[r] : log[r][i].msg = msg}
AttributeKeys(r) ==
    {p[1] : p \in UNION {spans[i].attributes : i \in SpansOf(r)}}
ResultKeys == {"result.processed", "result.timestamp", "result.success"}

\* C17: sequencing short-circuits. Whenever fetchUserData ends in Failure or
\* Defect, processUserData is never started (no user.process span is opened,
\* nothing is logged by it), the success annotation and the 'completed' log of
\* businessLogic never run, and the failure reaches the handlers of
\* businessLogic unchanged.
C17_ShortCircuit ==
    \A r \in Runs :
        \A i \in EventsOf(r, "catchTags", "fetchUserData") :
            LET e == events[r][i] IN
            e.out.tag \in {"Failure", "Defect"} =>
                /\ SpansNamed(r, "user.process") = {}
                /\ pc[r] \notin {"proc_enter", "proc_start", "proc_sleep", "proc_result",
                                  "proc_exit", "bl_finish"}
                /\ LogsOf(r, "Processing user") = {}
                /\ LogsOf(r, "Business logic completed") = {}
                /\ AttributeKeys(r) \cap ResultKeys = {}
                /\ \A j \in EventsOf(r, "catchTags", "businessLogic") :
                      events[r][j].in = e.out

\* fetchUserData failed with UserNotFound and the run has ended without
\* processUserData
C17_Witness ==
    \E r \in Runs :
        /\ pc[r] = "done"
        /\ \E i \in EventsOf(r, "catchTags", "fetchUserData") :
              events[r][i].out = [tag |-> "Failure", value |-> NotFound404]
        /\ \E j \in EventsOf(r, "catchTags", "businessLogic") :
              events[r][j].in = [tag |-> "Failure", value |-> NotFound404]
        /\ SpansNamed(r, "user.process") = {}
        /\ Cardinality(SpansOf(r)) = 3

\* C18: a handler sees only the failures raised earlier in its own
\* composition. The DatabaseError handler attached to fetchUserData runs
\* exactly when userRepository.findById failed with DatabaseError; the
\* DatabaseError raised by processUserData (userId = "process-error") never
\* reaches it and is seen only by the DatabaseError handler of businessLogic.
C18_HandlerScope ==
    \A r \in Runs :
        LET fetched == EventsOf(r, "catchTags", "fetchUserData")
            ran == {i \in fetched : events[r][i].handler = "DatabaseError"}
            lookupFailed == \E q \in SpansNamed(r, "db.query") : spans[q].exit = "Failure"
        IN  /\ Cardinality(fetched) <= 1
            /\ \A i \in ran : events[r][i].in = [tag |-> "Failure", value |-> SelectTimeout]
            /\ fetched # {} => (ran # {} <=> lookupFailed)
            /\ Cardinality(LogsOf(r, "Database error occurred")) = Cardinality(ran)
            /\ (userId[r] = IdProcessError /\ req[r].pipeline \in FullPipelines
                /\ PastWrappers(r) /\ ~Cancelled(r)) =>
                  /\ ran = {}
                  /\ \E p \in SpansNamed(r, "user.process") : spans[p].exit = "Failure"
                  /\ "error.type" \notin AttributeKeys(r)
                  /\ \E j \in EventsOf(r, "catchTags", "businessLogic") :
                        /\ events[r][j].in = [tag |-> "Failure", value |-> UpdateFailed]
                        /\ events[r][j].handler = "DatabaseError"
                        /\ events[r][j].out = [tag |-> "Defect", value |-> UpdateFailed]
                  /\ Cardinality(LogsOf(r, "Database error")) = 1

\* businessLogic("process-error") has ended: the outer handler ran, the inner
\* one did not
C18_Witness ==
    \E r \in Runs :
        /\ pc[r] = "done"
        /\ userId[r] = IdProcessError
        /\ \E i \in EventsOf(r, "catchTags", "fetchUserData") :
              events[r][i].handler = "none" /\ events[r][i].out.tag = "Success"
        /\ \E j \in EventsOf(r, "catchTags", "businessLogic") :
              events[r][j].handler = "DatabaseError"
        /\ out[r] = [tag |-> "Defect", value |-> UpdateFailed]

\* ------------------------------------------------------------ suspension
\* the sleeps inside span wrappers, and the span each is in
SpanSleeps == {"db_sleep", "proc_sleep", "sfetch_sleep", "sproc_sleep"}
SleepSpan(p) ==
    CASE p = "db_sleep" -> "db.query"
      [] p = "sfetch_sleep" -> "user.fetch"
      [] p \in {"proc_sleep", "sproc_sleep"} -> "user.process"

C19_Step(r) ==
    pc[r] \in SpanSleeps =>
        /\ cur[r] # NoSpan
        /\ spans[cur[r]].run = r
        /\ spans[cur[r]].name = SleepSpan(pc[r])
        /\ spans[cur[r]].ends = 0
        /\ pc'[r] = pc[r] => (cur'[r] = cur[r] /\ spans'[cur[r]] = spans[cur[r]])
        /\ pc'[r] = ResumeNext(pc[r]) =>
              (cur'[r] = cur[r] /\ spans'[cur[r]] = spans[cur[r]])

\* C19: the ambient span survives suspension. For the sleep inside db.query,
\* inside user.fetch (first businessLogic) and inside user.process, the span
\* that is current when the run resumes is the span that was current when it
\* suspended, and that span stays open, and untouched, for the whole
\* suspension, whatever another run does meanwhile.
C19_SpanAcrossSleep == [][\A r \in Runs : C19_Step(r)]_vars

\* r1 has resumed from the sleep of its db.query, which is still current and
\* open, after r2 opened spans of its own during the suspension
C19_Witness ==
    /\ pc["r1"] = "db_result"
    /\ cur["r1"] # NoSpan
    /\ spans[cur["r1"]].name = "db.query"
    /\ spans[cur["r1"]].run = "r1"
    /\ spans[cur["r1"]].ends = 0
    /\ \E j \in SpansOf("r2") : j > cur["r1"]

\* ------------------------------------------------------------ concurrency
\* run q has taken the step
Stepped(q) == pc'[q] # pc[q] \/ acquired'[q] # acquired[q]

C20_Step(r) ==
    /\ cur'[r] # NoSpan => spans'[cur'[r]].run = r
    /\ \A i \in DOMAIN spans' :
          (spans'[i].run = r /\ spans'[i].parent # NoSpan) =>
              spans'[spans'[i].parent].run = r
    /\ (\E q \in Runs \ {r} : Stepped(q)) =>
          /\ cur'[r] = cur[r]
          /\ \A i \in SpansOf(r) : spans'[i] = spans[i]
          /\ {i \in DOMAIN spans' : spans'[i].run = r} = SpansOf(r)

\* C20: concurrent runs do not interfere through the ambient span. With two
\* requests interleaved at their suspension points, each run keeps its own
\* current-span pointer (it points to a span of that run and no step of the
\* other run moves it), the parent of every span is a span of the same run,
\* and no step of one run, an annotateCurrentSpan included, changes a span of
\* the other.
C20_NoInterference == [][\A r \in Runs : C20_Step(r)]_vars

\* r1 has written its success annotation while r2 was suspended inside spans
\* it opened after r1's business.main; r2's spans carry none of it
C20_Witness ==
    /\ pc["r1"] = "bl_exit"
    /\ pc["r2"] \in SpanSleeps
    /\ cur["r1"] # NoSpan /\ cur["r2"] # NoSpan
    /\ <<"result.success", <<"true">>>> \in spans[cur["r1"]].attributes
    /\ cur["r1"] < cur["r2"]
    /\ \E j \in SpansOf("r1") : j > cur["r2"]
    /\ AttributeKeys("r2") \cap ResultKeys = {}

\* ------------------------------------------------ annotation and the spans
ErrorKeys == {"error", "error.type", "error.message"}

\* the DatabaseError handler of fetchUserData is about to run in run r
FetchHandlerDue(r) == pc[r] = "fetch_catch" /\ IsFailureOf(out[r], FetchKinds)

C21_Step(r) ==
    (FetchHandlerDue(r) /\ cur[r] = NoSpan /\ pc'[r] # pc[r]) =>
        /\ spans' = spans
        /\ out'[r] = out[r]
        /\ out'[r].tag = "Failure"
        /\ Len(log'[r]) = Len(log[r]) + 1
        /\ pc'[r] = "run_end"
        /\ cur'[r] = NoSpan

ErrorAttributes(error) ==
    {<<"error", <<"true">>>>, <<"error.type", <<"DatabaseError">>>>,
     <<"error.message", error.details>>}

KeysOf(attrs) == {p[1] : p \in attrs}

C22_Step(r) ==
    /\ \A i \in DOMAIN spans' :
          spans'[i].name \in {"user.fetch", "db.query"} =>
              KeysOf(spans'[i].attributes) \cap ErrorKeys = {}
    /\ (FetchHandlerDue(r) /\ cur[r] # NoSpan /\ pc'[r] # pc[r]) =>
          /\ spans[cur[r]].name = "business.main"
          /\ spans[cur[r]].run = r
          /\ spans[cur[r]].ends = 0
          /\ SpansNamed(r, "db.query") # {} /\ SpansNamed(r, "user.fetch") # {}
          /\ \A i \in SpansNamed(r, "db.query") \cup SpansNamed(r, "user.fetch") :
                spans[i].ends = 1
          /\ ErrorAttributes(out[r].value) \subseteq spans'[cur[r]].attributes
          /\ \A i \in DOMAIN spans : i # cur[r] => spans'[i] = spans[i]
          /\ Len(spans') = Len(spans)

\* C22: the DatabaseError handler of fetchUserData is composed after the
\* user.fetch span wrapper, so its annotation (error, error.type,
\* error.message) is evaluated when db.query and user.fetch have both closed:
\* within businessLogic it is written to the open business.main span of the
\* run, and no user.fetch or db.query span ever carries one of these keys.
C22_ErrorOnBusinessMain == [][\A r \in Runs : C22_Step(r)]_vars

\* businessLogic("error") has ended: business.main carries the three
\* attributes, with the details of the repository's error as error.message
C22_Witness ==
    \E r \in Runs :
        /\ req[r].pipeline \in FullPipelines
        /\ pc[r] = "done"
        /\ userId[r] = IdError
        /\ \E b \in SpansNamed(r, "business.main") :
              /\ ErrorAttributes(SelectTimeout) \subseteq spans[b].attributes
              /\ spans[b].ends = 1
        /\ \E f \in SpansNamed(r, "user.fetch") : spans[f].exit = "Failure"
        /\ \E q \in SpansNamed(r, "db.query") : spans[q].exit = "Failure"

\* the keys of the success annotation: the first businessLogic writes no
\* result.success
ResultKeysOf(pl) ==
    IF pl = "tryCatchSimple" THEN {"result.processed", "result.timestamp"}
    ELSE ResultKeys

\* the result.* keys carried by the spans sp of run r
ResultKeysIn(sp, r) ==
    UNION {KeysOf(sp[i].attributes) \cap ResultKeys :
              i \in {j \in DOMAIN sp : sp[j].run = r}}

C23_Step(r) ==
    LET pl == req[r].pipeline
        mains == {i \in DOMAIN spans' :
                     spans'[i].run = r /\ spans'[i].name = "business.main"}
    IN  \* written only by the last step of the generator, once, to business.main
        /\ ResultKeysIn(spans', r) # ResultKeysIn(spans, r) =>
              /\ pc[r] \in {"bl_finish", "sbl_finish"}
              /\ pc'[r] \in {"bl_exit", "sbl_exit"}
              /\ ResultKeysIn(spans, r) = {}
              /\ ResultKeysIn(spans', r) = ResultKeysOf(pl)
              /\ IsSuccess(out[r]) /\ out'[r] = out[r]
              /\ cur[r] # NoSpan
              /\ spans[cur[r]].run = r
              /\ spans[cur[r]].name = "business.main"
              /\ spans[cur[r]].ends = 0
              /\ cur'[r] = cur[r]
              /\ ResultKeysOf(pl) \subseteq KeysOf(spans'[cur[r]].attributes)
              /\ \A i \in DOMAIN spans : i # cur[r] => spans'[i] = spans[i]
              /\ \A n \in {"user.fetch", "user.process"} :
                    /\ SpansNamed(r, n) # {}
                    /\ \A i \in SpansNamed(r, n) :
                          spans[i].ends = 1 /\ spans[i].exit = "Success"
        \* carried by no other span
        /\ \A i \in DOMAIN spans' :
              (spans'[i].run = r /\ spans'[i].name # "business.main") =>
                  KeysOf(spans'[i].attributes) \cap ResultKeys = {}
        \* present exactly when businessLogic ends in Success
        /\ \A b \in mains :
              spans'[b].ends = 1 =>
                  (spans'[b].exit = "Success" <=>
                      ResultKeysOf(pl) \subseteq KeysOf(spans'[b].attributes))
        /\ \A i \in DOMAIN events'[r] :
              LET e == events'[r][i] IN
              (e.op = "catchTags" /\ e.site = "businessLogic") =>
                  (e.out.tag = "Success" <=>
                      \E b \in mains :
                          ResultKeysOf(pl) \subseteq KeysOf(spans'[b].attributes))
        /\ Cardinality(mains) <= 1

\* C23: the success annotation of businessLogic (result.processed,
\* result.timestamp, result.success; the first businessLogic writes the first
\* two) is written if and only if businessLogic ends in Success, it is written
\* exactly once, and it is written to the business.main span of the run, which
\* is current again because user.fetch and user.process have both been exited.
C23_SuccessAnnotation == [][\A r \in Runs : C23_Step(r)]_vars

\* businessLogic("123") has ended in Success behind a handler: the closed
\* business.main span carries the three keys and no other span does
C23_Witness ==
    \E r \in Runs :
        /\ req[r].pipeline \in FullPipelines
        /\ pc[r] = "done"
        /\ userId[r] = Id123
        /\ \E i \in EventsOf(r, "catchTags", "businessLogic") :
              events[r][i].out.tag = "Success"
        /\ Cardinality(SpansOf(r)) = 4
        /\ \E b \in SpansNamed(r, "business.main") :
              /\ spans[b].exit = "Success"
              /\ KeysOf(spans[b].attributes) = ResultKeys
              /\ <<"result.success", <<"true">>>> \in spans[b].attributes
        /\ \A i \in SpansOf(r) \ SpansNamed(r, "business.main") :
              KeysOf(spans[i].attributes) \cap ResultKeys = {}
        /\ Cardinality(LogsOf(r, "Business logic completed")) = 1

\* ---------------------------------------------------------- the span tree
\* the name of the parent of span i ("none" for a root)
ParentName(i) ==
    IF spans[i].parent = NoSpan THEN "none" ELSE spans[spans[i].parent].name

FourSpans == {"business.main", "user.fetch", "db.query", "user.process"}

\* C24: the span tree of a run is well nested on every path. A span is opened
\* after its parent, while the parent is open, and is closed before the parent
\* is closed; user.fetch is closed before user.process is opened; db.query has
\* user.fetch as parent, user.fetch and user.process have business.main as
\* parent, business.main is the root; and a run of businessLogic that ends in
\* Success has produced exactly these four spans, one of each.
C24_WellNested ==
    \A r \in Runs :
        LET pl == req[r].pipeline IN
        /\ \A i \in SpansOf(r) :
              LET p == spans[i].parent IN
              /\ spans[i].ends <= 1
              /\ p # NoSpan =>
                    /\ p < i
                    /\ spans[p].run = r
                    /\ spans[p].ends = 1 => spans[i].ends = 1
              /\ cur[r] = i => spans[i].ends = 0
              /\ spans[i].name = "db.query" => ParentName(i) = "user.fetch"
              /\ pl \in FullPipelines =>
                    /\ spans[i].name \in {"user.fetch", "user.process"} =>
                          ParentName(i) = "business.main"
                    /\ spans[i].name = "business.main" => ParentName(i) = "none"
                    /\ spans[i].name \in FourSpans
        /\ SpansNamed(r, "user.process") # {} =>
              \A f \in SpansNamed(r, "user.fetch") :
                  /\ spans[f].ends = 1
                  /\ \A q \in SpansNamed(r, "user.process") : f < q
        /\ \A q \in SpansNamed(r, "db.query"), f \in SpansNamed(r, "user.process") :
              q < f /\ spans[q].ends = 1
        /\ pl \in FullPipelines =>
              /\ \A n \in FourSpans : Cardinality(SpansNamed(r, n)) <= 1
              /\ (\E i \in EventsOf(r, "catchTags", "businessLogic") :
                     events[r][i].out.tag = "Success") =>
                    /\ Cardinality(SpansOf(r)) = 4
                    /\ \A n \in FourSpans : Cardinality(SpansNamed(r, n)) = 1
                    /\ \A i \in SpansOf(r) : spans[i].ends = 1

\* businessLogic("123") has ended in Success with its four spans closed:
\* business.main the root, user.fetch and user.process under it, db.query
\* under user.fetch, opened in the order main, fetch, query, process
C24_Witness ==
    \E r \in Runs :
        /\ req[r].pipeline \in FullPipelines
        /\ pc[r] = "done"
        /\ \E i \in EventsOf(r, "catchTags", "businessLogic") :
              events[r][i].out.tag = "Success"
        /\ \E b \in SpansNamed(r, "business.main"), f \in SpansNamed(r, "user.fetch"),
              q \in SpansNamed(r, "db.query"), p \in SpansNamed(r, "user.process") :
              /\ SpansOf(r) = {b, f, q, p}
              /\ b < f /\ f < q /\ q < p
              /\ spans[b].parent = NoSpan
              /\ spans[f].parent = b /\ spans[p].parent = b /\ spans[q].parent = f
              /\ \A i \in {b, f, q, p} : spans[i].ends = 1 /\ spans[i].status = "ok"

====
